---- MODULE Spec2Model ----
(***************************************************************************)
(* Model of image-checker (src/index.js): a CLI that records the base64    *)
(* encoding of images in the flat file store.db ("flag") and tests whether *)
(* an image, or a fixed-size chunk of it, occurs in that file ("check").   *)
(*                                                                         *)
(* Text (a base64 encoding, the content of store.db, a regular-expression  *)
(* source) is a sequence of one-character strings: "A+" is <<"A", "+">>.   *)
(***************************************************************************)
EXTENDS Integers, Sequences, FiniteSets, TLC

VARIABLES
    partialChunks,  \* config.partialChunks
    storeExists,    \* fs.existsSync('store.db')
    storeDb,        \* content of store.db
    pc,             \* per process: position in index.js
    command,        \* per process: process.argv[2]
    partial,        \* per process: args.includes('--partial')
    files,          \* per process: preload()'s files, a sequence of ImageFile
    data,           \* per process: preload()'s data, the store text read once
    idx,            \* per process: number of files the forEach loop has handled
    tally,          \* per process: stats.tally
    total,          \* per process: stats.total
    console,        \* per process: what the last step logged
    store0,         \* history: content of store.db when the process was launched
    written,        \* history: entries the running command has appended
    flaggedEarlier, \* history: encodings handled by flag commands that have ended
    arg,            \* argument of a direct call of an ImageFile method
    ret             \* what that call returned

vars == <<partialChunks, storeExists, storeDb, pc, command, partial, files, data,
          idx, tally, total, console, store0, written, flaggedEarlier, arg, ret>>

procVars == <<pc, command, partial, files, data, idx, tally, total, console,
              store0, written, flaggedEarlier>>

(***************************************************************************)
(* Bounds.                                                                 *)
(***************************************************************************)
MaxChunk == 2       \* config.partialChunks (120 as shipped, "alterable as
                    \* desired") ranges over 1..MaxChunk
MaxLen == 3         \* longest encoding handed to a direct method call
MaxData == 3        \* longest store text handed to a direct method call
MaxBatch == 2       \* most files one command resolves
MaxStoreLines == 3  \* a flag command starts only if its batch fits under this

NL == "\n"
Alphabet == {"A", "+", "/"}

\* Encodings of the image files on disk: an empty file, a lone metacharacter,
\* and two encodings an unescaped pattern would confuse (A+A matches AA).
ImagePool == { <<>>, <<"+">>, <<"A", "A">>, <<"A", "+", "A">> }

Procs == {"p1", "p2"}

Min(a, b) == IF a < b THEN a ELSE b

Strs(S, n) == UNION { [1..k -> S] : k \in 0..n }

Batches == UNION { [1..k -> ImagePool] : k \in 0..MaxBatch }

RECURSIVE Flatten(_)
Flatten(ss) == IF ss = <<>> THEN <<>> ELSE Head(ss) \o Flatten(Tail(ss))

\* The lines of a text: the newline-terminated entries, then the unterminated rest.
RECURSIVE SplitLines(_, _)
SplitLines(t, cur) ==
    IF t = <<>> THEN (IF cur = <<>> THEN <<>> ELSE <<cur>>)
    ELSE IF Head(t) = NL THEN <<cur>> \o SplitLines(Tail(t), <<>>)
    ELSE SplitLines(Tail(t), Append(cur, Head(t)))

Lines(t) == SplitLines(t, <<>>)

\* Literal containment: needle occurs as a contiguous run of hay.
IsSubstring(needle, hay) ==
    \E i \in 0..(Len(hay) - Len(needle)) :
        SubSeq(hay, i + 1, i + Len(needle)) = needle

IsPrefix(a, b) == Len(a) <= Len(b) /\ SubSeq(b, 1, Len(a)) = a

(***************************************************************************)
(* The regular expressions index.js builds.                                *)
(***************************************************************************)
logLevels == <<"INFO", "WARNING", "CRITICAL">>

\* The class [.*+?^${}()|[\]\\] of the two replace() calls.
Metachars == {".", "*", "+", "?", "^", "$", "{", "}", "(", ")", "|", "[", "]", "\\"}

\* Variant: no escaping, the encoding is used as the pattern source as it is.
EscapeNone(s) == s

\* string.replace(/[.*+?^${}()|[\]\\]/g, '\\$&')
RECURSIVE Escape(_)
Escape(s) ==
    IF s = <<>> THEN <<>>
    ELSE IF Head(s) \in Metachars THEN <<"\\", Head(s)>> \o Escape(Tail(s))
    ELSE <<Head(s)>> \o Escape(Tail(s))

\* RegExp(source): the atoms of the pattern. A backslash makes the next
\* character a literal; a bare + repeats the atom before it one or more times;
\* any other character of the alphabet is a literal. ok is FALSE where the
\* constructor throws a SyntaxError (nothing to repeat, trailing backslash).
RECURSIVE Compile(_, _)
Compile(src, atoms) ==
    IF src = <<>> THEN [ok |-> TRUE, atoms |-> atoms]
    ELSE IF Head(src) = "\\" THEN
        IF Len(src) < 2 THEN [ok |-> FALSE, atoms |-> <<>>]
        ELSE Compile(Tail(Tail(src)), Append(atoms, [ch |-> src[2], plus |-> FALSE]))
    ELSE IF Head(src) = "+" THEN
        IF atoms = <<>> \/ atoms[Len(atoms)].plus THEN [ok |-> FALSE, atoms |-> <<>>]
        ELSE Compile(Tail(src),
                     [atoms EXCEPT ![Len(atoms)] = [ch |-> @.ch, plus |-> TRUE]])
    ELSE Compile(Tail(src), Append(atoms, [ch |-> Head(src), plus |-> FALSE]))

\* Whether atoms k.. match text starting at position p (backtracking).
RECURSIVE MatchFrom(_, _, _, _)
MatchFrom(atoms, k, text, p) ==
    IF k > Len(atoms) THEN TRUE
    ELSE IF p > Len(text) THEN FALSE
    ELSE IF text[p] # atoms[k].ch THEN FALSE
    ELSE \/ MatchFrom(atoms, k + 1, text, p + 1)
         \/ (atoms[k].plus /\ MatchFrom(atoms, k, text, p + 1))

\* RegExp(source).test(text): an unanchored search; threw when the
\* constructor rejects the source.
RegExpTest(src, text) ==
    LET re == Compile(src, <<>>) IN
    IF ~re.ok THEN [threw |-> TRUE, value |-> FALSE]
    ELSE [threw |-> FALSE,
          value |-> \E p \in 1..(Len(text) + 1) : MatchFrom(re.atoms, 1, text, p)]

(***************************************************************************)
(* class ImageFile                                                         *)
(***************************************************************************)
\* base64.match(RegExp(`.{1,${n}}`, "g")) when there is at least one match:
\* greedy runs of up to n characters, left to right.
RECURSIVE MatchAll(_, _)
MatchAll(s, n) ==
    IF s = <<>> THEN <<>>
    ELSE LET k == Min(n, Len(s)) IN
         <<SubSeq(s, 1, k)>> \o MatchAll(SubSeq(s, k + 1, Len(s)), n)

\* The constructor: String.prototype.match returns null when nothing matches.
ImageFile(base64, n) ==
    [base64 |-> base64,
     chunks |-> IF MatchAll(base64, n) = <<>>
                THEN [isNull |-> TRUE, arr |-> <<>>]
                ELSE [isNull |-> FALSE, arr |-> MatchAll(base64, n)]]

\* Variant: RegExp(this.base64).test(data).
existsInDataUnescaped(file, text) == RegExpTest(EscapeNone(file.base64), text)

existsInData(file, text) == RegExpTest(Escape(file.base64), text)

\* chunks.every(chunk => ...): stops at the first chunk found in the text.
RECURSIVE EveryChunk(_, _, _)
EveryChunk(arr, i, text) ==
    IF i > Len(arr) THEN [threw |-> FALSE, value |-> FALSE]
    ELSE LET checkChunk == RegExpTest(Escape(arr[i]), text) IN
         IF checkChunk.threw THEN checkChunk
         ELSE IF checkChunk.value THEN [threw |-> FALSE, value |-> TRUE]
         ELSE EveryChunk(arr, i + 1, text)

\* this.chunks.every(...) on null throws a TypeError.
chunksExistInData(file, text) ==
    IF file.chunks.isNull THEN [threw |-> TRUE, value |-> FALSE]
    ELSE EveryChunk(file.chunks.arr, 1, text)

(***************************************************************************)
(* State after construction, and direct calls of the ImageFile methods.    *)
(***************************************************************************)
Text(t) == [text |-> t, stats |-> <<>>]

\* A closing report: `${stats.tally}/${stats.total}` inside the message.
Report(t, n, m) == [text |-> t, stats |-> <<n, m>>]

\* log(message, level, err): one line of logs.log and of the screen.
Msg(message, level, err) ==
    [level |-> logLevels[level + 1], msg |-> message, err |-> err]

\* exit(message, level, err): log the message, log 'Exiting...', process.exit(1).
ExitLog(message, level, err) ==
    <<Msg(message, level, err), Msg(Text("Exiting..."), 0, "null")>>

ProcInit ==
    /\ pc = [p \in Procs |-> "idle"]
    /\ command = [p \in Procs |-> "none"]
    /\ partial = [p \in Procs |-> FALSE]
    /\ files = [p \in Procs |-> <<>>]
    /\ data = [p \in Procs |-> <<>>]
    /\ idx = [p \in Procs |-> 0]
    /\ tally = [p \in Procs |-> 0]
    /\ total = [p \in Procs |-> 0]
    /\ console = [p \in Procs |-> <<>>]
    /\ store0 = [p \in Procs |-> <<>>]
    /\ written = [p \in Procs |-> <<>>]
    /\ flaggedEarlier = {}

NoCall == [op |-> "none"]

\* Any encoding, any store text, any chunk length; no call made yet.
InitPure ==
    /\ partialChunks \in 1..MaxChunk
    /\ storeExists = FALSE
    /\ storeDb = <<>>
    /\ ProcInit
    /\ arg \in [base64 : Strs(Alphabet, MaxLen), data : Strs(Alphabet \cup {NL}, MaxData)]
    /\ ret = NoCall

CallConstructor ==
    /\ ret' = [op |-> "ImageFile", file |-> ImageFile(arg.base64, partialChunks)]
    /\ UNCHANGED <<partialChunks, storeExists, storeDb, procVars, arg>>

CallExistsInData ==
    /\ ret' = [op |-> "existsInData",
               result |-> existsInData(ImageFile(arg.base64, partialChunks), arg.data)]
    /\ UNCHANGED <<partialChunks, storeExists, storeDb, procVars, arg>>

CallChunksExistInData ==
    /\ ret' = [op |-> "chunksExistInData",
               result |-> chunksExistInData(ImageFile(arg.base64, partialChunks), arg.data)]
    /\ UNCHANGED <<partialChunks, storeExists, storeDb, procVars, arg>>

NextPure == CallConstructor \/ CallExistsInData \/ CallChunksExistInData

SpecPure == InitPure /\ [][NextPure]_vars

(***************************************************************************)
(* One invocation of index.js, step by step.                               *)
(***************************************************************************)
Commands == {"none", "help", "flag", "check", "bogus"}

NoArg == [base64 |-> <<>>, data |-> <<>>]

Handled(p) ==
    IF command[p] = "flag" THEN { files[p][i].base64 : i \in 1..idx[p] } ELSE {}

Halt(p, log) ==
    /\ pc' = [pc EXCEPT ![p] = "halted"]
    /\ console' = [console EXCEPT ![p] = log]

\* Variant: store.db is written empty at every start.
NeedsCreateAlways(exists) == TRUE

\* if (!fs.existsSync('store.db'))
NeedsCreate(exists) == ~exists

\* A new process: the argument checks at the top of the file, up to the
\* existsSync test. cmd is "none" for an empty argument vector and "help"
\* when --help is among the arguments.
Launch(p) ==
    /\ pc[p] \in {"idle", "halted"}
    /\ \E cmd \in Commands, part \in BOOLEAN :
        /\ (part => cmd = "check")   \* only check() reads --partial
        /\ command' = [command EXCEPT ![p] = cmd]
        /\ partial' = [partial EXCEPT ![p] = part]
        /\ IF cmd = "none"
           THEN Halt(p, ExitLog(Text("Command missing. Use --help to view current commands."),
                                2, "null"))
           ELSE IF cmd = "help"
           THEN Halt(p, <<>>)
           ELSE /\ pc' = [pc EXCEPT ![p] =
                            IF NeedsCreate(storeExists) THEN "create" ELSE "dispatch"]
                /\ console' = [console EXCEPT ![p] = <<>>]
    /\ files' = [files EXCEPT ![p] = <<>>]
    /\ data' = [data EXCEPT ![p] = <<>>]
    /\ idx' = [idx EXCEPT ![p] = 0]
    /\ tally' = [tally EXCEPT ![p] = 0]
    /\ total' = [total EXCEPT ![p] = 0]
    /\ written' = [written EXCEPT ![p] = <<>>]
    /\ store0' = [store0 EXCEPT ![p] = storeDb]
    /\ flaggedEarlier' = flaggedEarlier \cup Handled(p)
    /\ UNCHANGED <<partialChunks, storeExists, storeDb, arg, ret>>

\* fs.writeFileSync('store.db', '')
CreateStore(p) ==
    /\ pc[p] = "create"
    /\ storeExists' = TRUE
    /\ storeDb' = <<>>
    /\ pc' = [pc EXCEPT ![p] = "dispatch"]
    /\ UNCHANGED <<partialChunks, command, partial, files, data, idx, tally, total,
                   console, store0, written, flaggedEarlier, arg, ret>>

\* eval(process.argv[2])(process.argv.slice(3)), and the catch around it.
Dispatch(p) ==
    /\ pc[p] = "dispatch"
    /\ IF command[p] \in {"flag", "check"}
       THEN /\ pc' = [pc EXCEPT ![p] = "preload"]
            /\ UNCHANGED console
       ELSE Halt(p, ExitLog(Text("Command not found"), 2, "ReferenceError"))
    /\ UNCHANGED <<partialChunks, storeExists, storeDb, command, partial, files, data,
                   idx, tally, total, store0, written, flaggedEarlier, arg, ret>>

\* preload(args): batch is what the path resolves to, the encodings of the
\* accepted image files in directory order (one file for a file path).
Preload(p) ==
    /\ pc[p] = "preload"
    /\ \E batch \in Batches :
        /\ command[p] = "flag" => Len(Lines(storeDb)) + Len(batch) <= MaxStoreLines
        /\ IF batch = <<>>
           THEN /\ Halt(p, ExitLog(Text("No files with accepted extensions found"),
                                   1, "null"))
                /\ UNCHANGED <<files, total, data>>
           ELSE /\ files' = [files EXCEPT ![p] =
                              [i \in 1..Len(batch) |-> ImageFile(batch[i], partialChunks)]]
                /\ total' = [total EXCEPT ![p] = Len(batch)]
                /\ data' = [data EXCEPT ![p] = storeDb]
                /\ pc' = [pc EXCEPT ![p] = command[p]]
                /\ UNCHANGED console
    /\ UNCHANGED <<partialChunks, storeExists, storeDb, command, partial, idx, tally,
                   store0, written, flaggedEarlier, arg, ret>>

\* fs.statSync(args[0]) throws for a path that does not exist; the catch
\* around the dispatch reports it.
PreloadNoEntry(p) ==
    /\ pc[p] = "preload"
    /\ Halt(p, ExitLog(Text("Command not found"), 2, "ENOENT"))
    /\ UNCHANGED <<partialChunks, storeExists, storeDb, command, partial, files, data,
                   idx, tally, total, store0, written, flaggedEarlier, arg, ret>>

\* Variant: appendFileSync('store.db', file.base64), no line end.
storeNoNewline(file, dat, db, writable) ==
    IF writable
    THEN [db |-> db \o file.base64, ret |-> TRUE, exited |-> FALSE,
          log |-> <<Msg(Text("File flagged"), 0, "null")>>]
    ELSE [db |-> db, ret |-> FALSE, exited |-> TRUE,
          log |-> ExitLog(Text("Error storing file"), 2, "err")]

\* Variant: writeFileSync in place of appendFileSync.
storeOverwrite(file, dat, db, writable) ==
    IF writable
    THEN [db |-> file.base64 \o <<NL>>, ret |-> TRUE, exited |-> FALSE,
          log |-> <<Msg(Text("File flagged"), 0, "null")>>]
    ELSE [db |-> db, ret |-> FALSE, exited |-> TRUE,
          log |-> ExitLog(Text("Error storing file"), 2, "err")]

\* Variant: the catch logs the error and returns false instead of exiting.
storeSwallow(file, dat, db, writable) ==
    IF writable
    THEN [db |-> db \o file.base64 \o <<NL>>, ret |-> TRUE, exited |-> FALSE,
          log |-> <<Msg(Text("File flagged"), 0, "null")>>]
    ELSE [db |-> db, ret |-> FALSE, exited |-> FALSE,
          log |-> <<Msg(Text("Error storing file"), 2, "err")>>]

\* Variant: the duplicate test reads store.db again instead of using data.
storeFresh(file, dat, db, writable) ==
    IF existsInData(file, db).value
    THEN [db |-> db, ret |-> FALSE, exited |-> FALSE,
          log |-> <<Msg(Text("File has already been added to data store"), 1, "null")>>]
    ELSE IF writable
    THEN [db |-> db \o file.base64 \o <<NL>>, ret |-> TRUE, exited |-> FALSE,
          log |-> <<Msg(Text("File flagged"), 0, "null")>>]
    ELSE [db |-> db, ret |-> FALSE, exited |-> TRUE,
          log |-> ExitLog(Text("Error storing file"), 2, "err")]

\* store(file, data): db is the content of store.db when appendFileSync runs,
\* writable whether that call succeeds. The result is the new content, the
\* return value, whether the process exited, and what was logged.
store(file, dat, db, writable) ==
    LET again == existsInData(file, dat) IN
    IF again.threw
    THEN [db |-> db, ret |-> FALSE, exited |-> TRUE,
          log |-> ExitLog(Text("Command not found"), 2, "SyntaxError")]
    ELSE IF again.value
    THEN [db |-> db, ret |-> FALSE, exited |-> FALSE,
          log |-> <<Msg(Text("File has already been added to data store"), 1, "null")>>]
    ELSE IF writable
    THEN [db |-> db \o file.base64 \o <<NL>>, ret |-> TRUE, exited |-> FALSE,
          log |-> <<Msg(Text("File flagged"), 0, "null")>>]
    ELSE [db |-> db, ret |-> FALSE, exited |-> TRUE,
          log |-> ExitLog(Text("Error storing file"), 2, "err")]

\* One turn of flag()'s files.forEach.
FlagFile(p) ==
    /\ pc[p] = "flag"
    /\ idx[p] < Len(files[p])
    /\ \E writable \in BOOLEAN :
        LET file == files[p][idx[p] + 1]
            exists == existsInData(file, data[p])
            save == store(file, data[p], storeDb, writable)
        IN  IF exists.threw
            THEN /\ Halt(p, ExitLog(Text("Command not found"), 2, "SyntaxError"))
                 /\ UNCHANGED <<storeDb, idx, tally, written>>
            ELSE IF exists.value
            THEN /\ console' = [console EXCEPT ![p] =
                        <<Msg(Text("File already exists in data store"), 0, "null")>>]
                 /\ idx' = [idx EXCEPT ![p] = @ + 1]
                 /\ UNCHANGED <<storeDb, pc, tally, written>>
            ELSE /\ storeDb' = save.db
                 /\ console' = [console EXCEPT ![p] = save.log]
                 /\ IF save.exited
                    THEN /\ pc' = [pc EXCEPT ![p] = "halted"]
                         /\ UNCHANGED <<idx, tally, written>>
                    ELSE /\ idx' = [idx EXCEPT ![p] = @ + 1]
                         /\ tally' = [tally EXCEPT ![p] = IF save.ret THEN @ + 1 ELSE @]
                         /\ written' = [written EXCEPT ![p] =
                                IF save.ret THEN Append(@, file.base64) ELSE @]
                         /\ UNCHANGED pc
    /\ UNCHANGED <<partialChunks, storeExists, command, partial, files, data, total,
                   store0, flaggedEarlier, arg, ret>>

\* exit(`Flag complete. Added ${stats.tally}/${stats.total} file(s).`, 0)
FlagExit(p) ==
    /\ pc[p] = "flag"
    /\ idx[p] = Len(files[p])
    /\ Halt(p, ExitLog(Report("Flag complete", tally[p], total[p]), 0, "null"))
    /\ UNCHANGED <<partialChunks, storeExists, storeDb, command, partial, files, data,
                   idx, tally, total, store0, written, flaggedEarlier, arg, ret>>

\* One turn of check()'s files.forEach.
CheckFile(p) ==
    /\ pc[p] = "check"
    /\ idx[p] < Len(files[p])
    /\ LET file == files[p][idx[p] + 1]
           chunkExists == IF partial[p] THEN chunksExistInData(file, data[p])
                          ELSE [threw |-> FALSE, value |-> FALSE]
           exists == existsInData(file, data[p])
       IN  IF chunkExists.threw
           THEN /\ Halt(p, ExitLog(Text("Command not found"), 2, "TypeError"))
                /\ UNCHANGED <<idx, tally>>
           ELSE IF exists.threw
           THEN /\ Halt(p, ExitLog(Text("Command not found"), 2, "SyntaxError"))
                /\ UNCHANGED <<idx, tally>>
           ELSE /\ idx' = [idx EXCEPT ![p] = @ + 1]
                /\ IF exists.value \/ chunkExists.value
                   THEN /\ console' = [console EXCEPT ![p] =
                              <<Msg(Text("File found in data store"), 0, "null")>>]
                        /\ tally' = [tally EXCEPT ![p] = @ + 1]
                   ELSE /\ console' = [console EXCEPT ![p] =
                              <<Msg(Text("Did not find file in data store"), 0, "null")>>]
                        /\ UNCHANGED tally
                /\ UNCHANGED pc
    /\ UNCHANGED <<partialChunks, storeExists, storeDb, command, partial, files, data,
                   total, store0, written, flaggedEarlier, arg, ret>>

\* exit(`Check complete. Found ${stats.tally}/${stats.total} ...`, 0)
CheckExit(p) ==
    /\ pc[p] = "check"
    /\ idx[p] = Len(files[p])
    /\ Halt(p, ExitLog(Report("Check complete", tally[p], total[p]), 0, "null"))
    /\ UNCHANGED <<partialChunks, storeExists, storeDb, command, partial, files, data,
                   idx, tally, total, store0, written, flaggedEarlier, arg, ret>>

(***************************************************************************)
(* One user, one invocation at a time.                                     *)
(***************************************************************************)
Init ==
    /\ partialChunks \in 1..MaxChunk
    /\ storeExists = FALSE
    /\ storeDb = <<>>
    /\ ProcInit
    /\ arg = NoArg
    /\ ret = NoCall

Next ==
    \/ Launch("p1")
    \/ CreateStore("p1")
    \/ Dispatch("p1")
    \/ Preload("p1")
    \/ PreloadNoEntry("p1")
    \/ FlagFile("p1")
    \/ FlagExit("p1")
    \/ CheckFile("p1")
    \/ CheckExit("p1")

Spec == Init /\ [][Next]_vars

(***************************************************************************)
(* Two invocations at once against a store.db that already exists, each    *)
(* flagging one file.                                                      *)
(***************************************************************************)
InitRace ==
    /\ partialChunks \in 1..MaxChunk
    /\ storeExists = TRUE
    /\ storeDb \in {<<>>, <<"A", "A", NL>>}
    /\ ProcInit
    /\ arg = NoArg
    /\ ret = NoCall

LaunchFlag(p) == pc[p] = "idle" /\ Launch(p) /\ command'[p] = "flag"

PreloadOne(p) == Preload(p) /\ Len(files'[p]) = 1

NextRace ==
    \E p \in Procs :
        \/ LaunchFlag(p)
        \/ Dispatch(p)
        \/ PreloadOne(p)
        \/ FlagFile(p)
        \/ FlagExit(p)

SpecRace == InitRace /\ [][NextRace]_vars

(***************************************************************************)
(* Properties.                                                             *)
(***************************************************************************)
\* The process has ended with the closing report `text`.
Reported(p, text) ==
    /\ pc[p] = "halted"
    /\ Len(console[p]) > 0
    /\ console[p][1].msg.text = text

\* The last step logged the failure of appendFileSync.
AppendFailed(p) ==
    /\ Len(console[p]) > 0
    /\ console[p][1].msg.text = "Error storing file"

Entries(bs) == Flatten([i \in 1..Len(bs) |-> bs[i] \o <<NL>>])

Occurrences(line, text) ==
    Cardinality({ i \in 1..Len(Lines(text)) : Lines(text)[i] = line })

CeilDiv(l, n) == (l + n - 1) \div n

\* The chunks the chunker is specified to give: ceil(L/N) slices of length N,
\* the last one holding the remainder.
SliceChunks(s, n) ==
    [i \in 1..CeilDiv(Len(s), n) |-> SubSeq(s, (i - 1) * n + 1, Min(i * n, Len(s)))]

\* C1: a flag command on one image X whose encoding does not occur in the
\* store text, once it has reported, has appended exactly X and a newline,
\* reports 1/1, and existsInData(X) on the re-read store is true.
C1_FlagOnceAppends ==
    \A p \in Procs :
        (/\ Reported(p, "Flag complete")
         /\ Len(files[p]) = 1
         /\ ~IsSubstring(files[p][1].base64, store0[p]))
        => /\ storeDb = store0[p] \o files[p][1].base64 \o <<NL>>
           /\ console[p][1].msg.stats = <<1, 1>>
           /\ tally[p] = 1 /\ total[p] = 1
           /\ existsInData(files[p][1], storeDb) = [threw |-> FALSE, value |-> TRUE]

C1_Witness ==
    /\ Reported("p1", "Flag complete")
    /\ Len(files["p1"]) = 1
    /\ store0["p1"] # <<>>
    /\ ~IsSubstring(files["p1"][1].base64, store0["p1"])
    /\ storeDb = store0["p1"] \o files["p1"][1].base64 \o <<NL>>

\* C2: when flag reaches an image that an earlier flag command already
\* handled, it logs "already exists", leaves store.db as it is and does not
\* increment the tally.
C2_SecondFlagIsNoOp ==
    [][\A p \in Procs :
        (/\ pc[p] = "flag"
         /\ idx[p] < Len(files[p])
         /\ files[p][idx[p] + 1].base64 \in flaggedEarlier)
        => /\ storeDb' = storeDb
           /\ tally' = tally
           /\ written' = written
           /\ idx'[p] = idx[p] + 1
           /\ console'[p] = <<Msg(Text("File already exists in data store"), 0, "null")>>
      ]_vars

C2_Witness ==
    /\ Reported("p1", "Flag complete")
    /\ Len(files["p1"]) = 1
    /\ files["p1"][1].base64 = <<"A", "+", "A">>
    /\ files["p1"][1].base64 \in flaggedEarlier
    /\ tally["p1"] = 0
    /\ storeDb = store0["p1"]
    /\ Occurrences(<<"A", "+", "A">>, storeDb) = 1

\* C3: no line of store.db is a duplicate of another line, whatever flag
\* commands have run (single files or batches).
C3_NoDuplicateLines ==
    \A i, j \in 1..Len(Lines(storeDb)) :
        i # j => Lines(storeDb)[i] # Lines(storeDb)[j]

\* C4: a check command, with or without --partial, leaves the content of
\* store.db as it was when the command was launched.
C4_CheckLeavesStore ==
    \A p \in Procs : command[p] = "check" => storeDb = store0[p]

C4_Witness ==
    /\ Reported("p1", "Check complete")
    /\ partial["p1"]
    /\ total["p1"] = 2
    /\ tally["p1"] = 1
    /\ storeDb # <<>>
    /\ storeDb = store0["p1"]

\* C5: every step of every command keeps the old content of store.db as a
\* prefix of the new one, and what it adds is nothing or one entry followed
\* by a newline.
C5_AppendOnly ==
    [][/\ IsPrefix(storeDb, storeDb')
       /\ LET added == SubSeq(storeDb', Len(storeDb) + 1, Len(storeDb'))
          IN  \/ added = <<>>
              \/ \E p \in Procs : \E i \in 1..Len(files[p]) :
                    /\ files[p][i].base64 # <<>>
                    /\ added = files[p][i].base64 \o <<NL>>
      ]_vars

C5_Witness ==
    /\ pc["p1"] = "halted"
    /\ command["p1"] = "flag"
    /\ store0["p1"] # <<>>
    /\ Len(written["p1"]) = 2
    /\ storeDb = store0["p1"] \o Entries(written["p1"])

\* C6: the constructor's chunks are an ordered sequence of ceil(L/N) slices,
\* each of length N but the last of length L - N*(ceil(L/N)-1), whose
\* concatenation is the encoding; for L = 0 an empty sequence.
C6_ChunkerShape ==
    ret.op = "ImageFile" =>
        LET L == Len(arg.base64)
            N == partialChunks
            K == CeilDiv(L, N)
            c == ret.file.chunks
        IN  /\ ~c.isNull
            /\ Len(c.arr) = K
            /\ \A i \in 1..(K - 1) : Len(c.arr[i]) = N
            /\ K > 0 => Len(c.arr[K]) = L - N * (K - 1)
            /\ Flatten(c.arr) = arg.base64

\* C7: chunksExistInData returns, without raising, whether at least one
\* chunk of the image occurs in the store text, also for an image whose
\* encoding is empty.
C7_PartialIffSomeChunk ==
    ret.op = "chunksExistInData" =>
        /\ ~ret.result.threw
        /\ ret.result.value =
              (\E i \in 1..Len(SliceChunks(arg.base64, partialChunks)) :
                  IsSubstring(SliceChunks(arg.base64, partialChunks)[i], arg.data))

\* C8: existsInData, which escapes the encoding and runs it as a pattern,
\* agrees with literal containment of the encoding in the store text.
C8_ExactIsLiteral ==
    ret.op = "existsInData" =>
        ret.result = [threw |-> FALSE, value |-> IsSubstring(arg.base64, arg.data)]

C8_Witness ==
    /\ ret.op = "existsInData"
    /\ arg.base64 = <<"+", "/">>
    /\ arg.data = <<"+", "/", NL>>
    /\ ret.result.value

\* C9: when appendFileSync fails the process has exited on the spot: the
\* error is logged, the failing image and those after it are not handled,
\* and store.db holds what it held at launch plus every entry the batch had
\* already appended.
C9_AppendFailureAborts ==
    \A p \in Procs :
        AppendFailed(p) =>
            /\ pc[p] = "halted"
            /\ console[p] = ExitLog(Text("Error storing file"), 2, "err")
            /\ idx[p] < Len(files[p])
            /\ ~IsSubstring(files[p][idx[p] + 1].base64, data[p])
            /\ Len(written[p]) = tally[p]
            /\ storeDb = store0[p] \o Entries(written[p])
            /\ ~ENABLED (FlagFile(p) \/ FlagExit(p))

C9_Witness ==
    /\ AppendFailed("p1")
    /\ pc["p1"] = "halted"
    /\ idx["p1"] = 1
    /\ Len(written["p1"]) = 1
    /\ storeDb = store0["p1"] \o Entries(written["p1"])

\* C10: two flag processes for the same image X that both loaded a store
\* text without X both append X: once both have reported, store.db holds the
\* line X twice.
C10_RaceAppendsTwice ==
    \A X \in ImagePool :
        (\A p \in Procs :
            /\ Reported(p, "Flag complete")
            /\ files[p] = <<ImageFile(X, partialChunks)>>
            /\ ~IsSubstring(X, data[p]))
        => /\ Occurrences(X, storeDb) = Cardinality(Procs)
           /\ \A p \in Procs : written[p] = <<X>>

C10_Witness ==
    /\ \A p \in Procs : Reported(p, "Flag complete") /\ data[p] = <<>>
    /\ storeDb = <<"A", "+", "A", NL, "A", "+", "A", NL>>

====
